---- MODULE Spec2Model ----
(***************************************************************************)
(* A model of consul-port-redirector (main.go): the HTTP handler that      *)
(* resolves the Host header of a request into a redirect, a listing of     *)
(* candidates or an error page.                                            *)
(*                                                                         *)
(* Strings are TLA+ strings; TLC evaluates Len, SubSeq and \o on them, so  *)
(* the string functions of Go's strings package are computed character by  *)
(* character as the library computes them.                                 *)
(***************************************************************************)
EXTENDS Naturals, Sequences, FiniteSets, TLC

(***************************************************************************)
(* Go's strings package, as main.go uses it.                               *)
(***************************************************************************)

\* strings.HasPrefix(s, prefix)
HasPrefix(s, prefix) ==
    /\ Len(s) >= Len(prefix)
    /\ SubSeq(s, 1, Len(prefix)) = prefix

\* strings.HasSuffix(s, suffix)
HasSuffix(s, suffix) ==
    /\ Len(s) >= Len(suffix)
    /\ SubSeq(s, Len(s) - Len(suffix) + 1, Len(s)) = suffix

\* strings.TrimPrefix(s, prefix): s without the prefix, s itself when it
\* does not start with it.
TrimPrefix(s, prefix) ==
    IF HasPrefix(s, prefix) THEN SubSeq(s, Len(prefix) + 1, Len(s)) ELSE s

\* strings.TrimSuffix(s, suffix)
TrimSuffix(s, suffix) ==
    IF HasSuffix(s, suffix) THEN SubSeq(s, 1, Len(s) - Len(suffix)) ELSE s

\* The positions (from 1) at which substr occurs in s.
Occurrences(s, substr) ==
    { i \in 1..(Len(s) + 1) :
        /\ i + Len(substr) - 1 <= Len(s)
        /\ SubSeq(s, i, i + Len(substr) - 1) = substr }

\* The least and the greatest element of a set of positions, 0 for none.
First(positions) ==
    IF positions = {} THEN 0
    ELSE CHOOSE i \in positions : \A j \in positions : i <= j

Last(positions) ==
    IF positions = {} THEN 0
    ELSE CHOOSE i \in positions : \A j \in positions : i >= j

\* strings.Index(s, substr), counted from 1; 0 when substr does not occur.
Index(s, substr) == First(Occurrences(s, substr))

\* strings.LastIndex(s, substr), counted from 1; 0 when substr does not occur.
LastIndex(s, substr) == Last(Occurrences(s, substr))

\* strings.Contains(s, substr)
Contains(s, substr) == Index(s, substr) # 0

\* s[i:] of Go, with i counted from 0.
From(s, i) == SubSeq(s, i + 1, Len(s))

\* s[:i] of Go.
Upto(s, i) == SubSeq(s, 1, i)

\* strings.SplitN(s, sep, 2): at most two fields, split at the first sep.
SplitN2(s, sep) ==
    LET i == Index(s, sep)
    IN  IF i = 0 THEN <<s>>
        ELSE <<Upto(s, i - 1), From(s, i - 1 + Len(sep))>>

\* strings.SplitAfterN(s, sep, 2): as SplitN, the first field keeps the sep.
SplitAfterN2(s, sep) ==
    LET i == Index(s, sep)
    IN  IF i = 0 THEN <<s>>
        ELSE <<Upto(s, i - 1 + Len(sep)), From(s, i - 1 + Len(sep))>>

\* strings.Split(s, sep) for a non-empty sep: every field.
RECURSIVE Split(_, _)
Split(s, sep) ==
    LET i == Index(s, sep)
    IN  IF i = 0 THEN <<s>>
        ELSE <<Upto(s, i - 1)>> \o Split(From(s, i - 1 + Len(sep)), sep)

\* strings.Count(s, substr) for a non-empty substr: non-overlapping
\* occurrences.
RECURSIVE Count(_, _)
Count(s, substr) ==
    LET i == Index(s, substr)
    IN  IF i = 0 THEN 0
        ELSE 1 + Count(From(s, i - 1 + Len(substr)), substr)

\* strings.ReplaceAll(s, old, new) for a non-empty old.
RECURSIVE ReplaceAll(_, _, _)
ReplaceAll(s, old, new) ==
    LET i == Index(s, old)
    IN  IF i = 0 THEN s
        ELSE Upto(s, i - 1) \o new
                \o ReplaceAll(From(s, i - 1 + Len(old)), old, new)

\* strings.Join(elems, sep)
RECURSIVE Join(_, _)
Join(elems, sep) ==
    IF Len(elems) = 0 THEN ""
    ELSE IF Len(elems) = 1 THEN elems[1]
    ELSE elems[1] \o sep \o Join(Tail(elems), sep)

UpperLetters == "ABCDEFGHIJKLMNOPQRSTUVWXYZ"
LowerLetters == "abcdefghijklmnopqrstuvwxyz"
Digits == "0123456789"

\* strings.ToLower(s) on ASCII.
RECURSIVE ToLower(_)
ToLower(s) ==
    IF Len(s) = 0 THEN ""
    ELSE LET c == SubSeq(s, 1, 1)
             i == Index(UpperLetters, c)
         IN  (IF i = 0 THEN c ELSE SubSeq(LowerLetters, i, i))
                \o ToLower(From(s, 1))

\* The order of Go's < on strings: bytewise, here over the characters the
\* model's hostnames are written in ('.' and '-' sort before the digits, the
\* digits before the letters, as in ASCII).
ByteOrder == "-." \o Digits \o UpperLetters \o "_" \o LowerLetters

RECURSIVE StringLess(_, _)
StringLess(a, b) ==
    IF Len(b) = 0 THEN FALSE
    ELSE IF Len(a) = 0 THEN TRUE
    ELSE LET x == Index(ByteOrder, SubSeq(a, 1, 1))
             y == Index(ByteOrder, SubSeq(b, 1, 1))
         IN  IF x # y THEN x < y
             ELSE StringLess(From(a, 1), From(b, 1))

(***************************************************************************)
(* Go's net/url, as main.go uses it: a URL is its scheme, host, path and   *)
(* raw query.  The URLs of the model carry no user info, no fragment and   *)
(* no character that the path encoding escapes.                            *)
(***************************************************************************)

URLOf(scheme, host, path, rawQuery) ==
    [Scheme |-> scheme, Host |-> host, Path |-> path, RawQuery |-> rawQuery]

ParseError == [err |-> TRUE, url |-> URLOf("", "", "", "")]
Parsed(u) == [err |-> FALSE, url |-> u]

\* TRUE iff every character of s occurs in chars.
RECURSIVE AllIn(_, _)
AllIn(s, chars) ==
    \/ Len(s) = 0
    \/ /\ Contains(chars, SubSeq(s, 1, 1))
       /\ AllIn(From(s, 1), chars)

\* url.getScheme, i being the place of the first ':' of rawURL: the text
\* before it is the scheme when it is a letter followed by letters, digits,
\* '+', '-' and '.'; a ':' in front is the error "missing protocol scheme".
\* <<scheme, rest, err>>.
schemeAt(rawURL, i) ==
    IF i = 0 THEN <<"", rawURL, FALSE>>
    ELSE IF i = 1 THEN <<"", "", TRUE>>
    ELSE IF /\ Contains(UpperLetters \o LowerLetters, SubSeq(rawURL, 1, 1))
            /\ AllIn(Upto(rawURL, i - 1),
                     UpperLetters \o LowerLetters \o Digits \o "+-.")
    THEN <<Upto(rawURL, i - 1), From(rawURL, i), FALSE>>
    ELSE <<"", rawURL, FALSE>>

getScheme(rawURL) == schemeAt(rawURL, Index(rawURL, ":"))

\* s cut in two at position i (from 1; 0 for no cut): before it, and after it
\* (Cut, the character at i dropped) or from it (CutBefore).
CutAt(s, i) ==
    IF i = 0 THEN <<s, "">> ELSE <<Upto(s, i - 1), From(s, i)>>

CutBefore(s, i) ==
    IF i = 0 THEN <<s, "">> ELSE <<Upto(s, i - 1), From(s, i - 1)>>

\* url.parseHost: what follows the last ':' of the host must be digits.
validPort(host, i) == i = 0 \/ AllIn(From(host, i), Digits)

validHost(host) == validPort(host, LastIndex(host, ":"))

\* url.parse after "//": hostPath is <<authority, path>>.
parseAuthority(scheme, hostPath, query) ==
    IF validHost(hostPath[1])
    THEN Parsed(URLOf(ToLower(scheme), hostPath[1], hostPath[2], query))
    ELSE ParseError

\* url.parse after the scheme and the query are cut off: a rest that starts
\* with "//" gives the host up to the next '/'; what remains is the path.  A
\* first path segment with a ':' and no scheme is an error.
parseHier(scheme, rest, query) ==
    IF /\ HasPrefix(rest, "//")
       /\ (scheme # "" \/ ~HasPrefix(rest, "///"))
    THEN parseAuthority(scheme,
                        CutBefore(From(rest, 2), Index(From(rest, 2), "/")),
                        query)
    ELSE IF /\ scheme = ""
            /\ ~HasPrefix(rest, "/")
            /\ Contains(SplitN2(rest, "/")[1], ":")
    THEN ParseError
    ELSE Parsed(URLOf(ToLower(scheme), "", rest, query))

\* url.parse after getScheme: the query is what follows the first '?'.
parseRest(scheme, restQuery) == parseHier(scheme, restQuery[1], restQuery[2])

parseScheme(sch) ==
    IF sch[3] THEN ParseError
    ELSE parseRest(sch[1], CutAt(sch[2], Index(sch[2], "?")))

\* url.Parse(rawURL): [err, url].
ParseURL(rawURL) == parseScheme(getScheme(rawURL))

\* (*url.URL).String(): scheme, "//" and host when there is a scheme or a
\* host, the path (after a '/' when it lacks one and follows a host, after
\* "./" when nothing precedes it and its first segment holds a ':'), '?' and
\* the query when there is one.
URLString(u) ==
    (IF u.Scheme # "" THEN u.Scheme \o ":" ELSE "")
    \o (IF (u.Scheme # "" \/ u.Host # "") /\ (u.Host # "" \/ u.Path # "")
        THEN "//" \o u.Host ELSE "")
    \o (IF u.Path # "" /\ ~HasPrefix(u.Path, "/") /\ u.Host # "" THEN "/"
        ELSE IF /\ u.Scheme = ""
                /\ u.Host = ""
                /\ Contains(SplitN2(u.Path, "/")[1], ":")
        THEN "./"
        ELSE "")
    \o u.Path
    \o (IF u.RawQuery # "" THEN "?" \o u.RawQuery ELSE "")

\* fmt.Sprintf("%d", port) for a port number.
RECURSIVE Itoa(_)
Itoa(n) ==
    IF n < 10 THEN SubSeq(Digits, n + 1, n + 1)
    ELSE Itoa(n \div 10) \o SubSeq(Digits, (n % 10) + 1, (n % 10) + 1)

\* buildUrlWithPort, lines 358-365: the scheme and the host of the parsed
\* URL are overridden; the host carries ":port" unless port is 0.
withHost(p, hostname, scheme, port) ==
    IF p.err THEN p
    ELSE Parsed([p.url EXCEPT
                    !.Scheme = scheme,
                    !.Host = IF port # 0 THEN hostname \o ":" \o Itoa(port)
                             ELSE hostname])

\* buildUrlWithPort(hostname, origUrl, scheme, port): the request's URL is
\* printed and parsed again first.
buildUrlWithPort(hostname, origUrl, scheme, port) ==
    withHost(ParseURL(URLString(origUrl)), hostname, scheme, port)

(***************************************************************************)
(* The address parser.                                                     *)
(***************************************************************************)

\* parseConsulAddress, lines 423-428: a type that holds a '.' gives
\* <<"", "">>.
checkType(svcName, svcType) ==
    IF Count(svcType, ".") > 0 THEN <<"", "">> ELSE <<svcName, svcType>>

\* splitName with the fields the other way round: the first field taken for
\* the type and the second for the service name.
splitNameTypeFirst(left) ==
    IF Contains(left, ".")
    THEN checkType(TrimPrefix(SplitN2(left, ".")[2], "_"),
                   TrimPrefix(SplitN2(left, ".")[1], "_"))
    ELSE checkType(left, "")

\* parseConsulAddress, lines 414-421, left being the text before the first
\* ".service.": when it holds a '.', its first field is the service name and
\* the rest the type, a leading '_' trimmed from each.
splitName(left) ==
    IF Contains(left, ".")
    THEN checkType(TrimPrefix(SplitN2(left, ".")[1], "_"),
                   TrimPrefix(SplitN2(left, ".")[2], "_"))
    ELSE checkType(left, "")

\* parseConsulAddress(hostname): <<svcName, svcType>>.  A hostname without
\* ".service." is split as a whole.
parseConsulAddress(hostname) == splitName(SplitN2(hostname, ".service.")[1])

\* getHostname(req): the Host header up to its first ':'.
getHostname(request) == SplitN2(request.Host, ":")[1]

(***************************************************************************)
(* The state: the flags and the route table (set at start-up, never        *)
(* written afterwards), the request being served and the response to the   *)
(* last request served.                                                    *)
(***************************************************************************)
VARIABLES
    customRoutes,       \* Server.customRoutes: route key -> target template
    hostnameSuffix,     \* flag -hostnameSuffix
    redirectToNomadUI,  \* flag -redirectToNomadUI
    nomadUIHostname,    \* flag -nomadUIHostname
    consulUIHostname,   \* flag -consulUIHostname
    req,                \* the request handed to ServeHTTP: [Host, URL]
    pending,            \* TRUE while req waits for ServeHTTP
    res                 \* what ServeHTTP did with the request: [served, out]

flags == <<customRoutes, hostnameSuffix, redirectToNomadUI,
           nomadUIHostname, consulUIHostname>>
vars == <<customRoutes, hostnameSuffix, redirectToNomadUI,
          nomadUIHostname, consulUIHostname, req, pending, res>>

StatusOK == 200
StatusTemporaryRedirect == 307
StatusNotFound == 404
StatusInternalServerError == 500
NomadUIPort == 4646
ConsulUIPort == 8500

\* The record of one run of ServeHTTP.  written counts the responses begun
\* (WriteHeader, or the first Write, which sends 200); panicked is a run-time
\* panic of the handler, after which nothing is written.  The other fields
\* record the stages the handler went through: the route keys looked up, in
\* order, and the key that matched; whether the Nomad UI branch was taken;
\* the parser's result when the handler ran it; the directory query made, its
\* answer and the sorted options.
NoResponse ==
    [written |-> 0, status |-> 0, location |-> "", body |-> <<>>,
     panicked |-> FALSE, tried |-> <<>>, matched |-> FALSE, matchedKey |-> "",
     nomadUI |-> FALSE, parsed |-> FALSE, svcName |-> "", svcType |-> "",
     queried |-> FALSE, querySvc |-> "", queryType |-> "",
     queryErr |-> FALSE, services |-> <<>>, options |-> <<>>]

\* res.WriteHeader(status) followed by the writes of body.
Respond(r, status, body) ==
    [r EXCEPT !.written = @ + 1, !.status = status, !.body = body]

\* http.Redirect(res, req, url, code).  Every URL the handler redirects to
\* carries a scheme, so it is sent as it is.
Redirect(r, url, code) ==
    [r EXCEPT !.written = @ + 1, !.status = code, !.location = url,
              !.body = <<[kind |-> "redirect", href |-> url]>>]

\* A run-time panic in the handler: the server drops the connection.
Panic(r) == [r EXCEPT !.panicked = TRUE]

(***************************************************************************)
(* Custom routes.                                                          *)
(***************************************************************************)

RouteError == [outcome |-> "error", url |-> ""]
RoutePanic == [outcome |-> "panic", url |-> ""]
RouteRedirect(u) == [outcome |-> "redirect", url |-> URLString(u)]

\* redirectToCustomRoute, lines 320-328, path being redirUrl.Path: with
\* "$arg$" in the target, the path and the query are the target's with
\* path[1:] for $arg$ (a slice out of range on an empty path); otherwise a
\* target path longer than "/" goes in front of path.
substituteArg(parsedUrl, redirUrl, path, customUrl) ==
    IF Contains(customUrl, "$arg$")
    THEN IF Len(path) < 1 THEN RoutePanic
         ELSE RouteRedirect(
                [redirUrl EXCEPT
                    !.Path = ReplaceAll(parsedUrl.Path, "$arg$",
                                        From(path, 1)),
                    !.RawQuery = ReplaceAll(parsedUrl.RawQuery, "$arg$",
                                            From(path, 1))])
    ELSE IF Len(parsedUrl.Path) > 1
    THEN RouteRedirect([redirUrl EXCEPT !.Path = parsedUrl.Path \o path])
    ELSE RouteRedirect([redirUrl EXCEPT !.Path = path])

\* trimRouteKey without the trim: the path part of the key stays in the path.
trimRouteKeyNever(path, hostname) == path

\* redirectToCustomRoute, lines 314-318: for a key "host/a", "/a" is trimmed
\* from the front of the path.
trimRouteKey(path, hostname) ==
    IF Contains(hostname, "/")
    THEN TrimPrefix(path, "/" \o SplitAfterN2(hostname, "/")[2])
    ELSE path

\* redirectToCustomRoute, lines 309-318.
rewriteRequest(parsedUrl, built, hostname, customUrl) ==
    IF built.err THEN RouteError
    ELSE substituteArg(parsedUrl, built.url,
                       trimRouteKey(built.url.Path, hostname), customUrl)

\* redirectToCustomRoute, lines 304-312.
rewriteTarget(parsed, request, hostname, customUrl) ==
    IF parsed.err THEN RouteError
    ELSE rewriteRequest(parsed.url,
                        buildUrlWithPort(parsed.url.Host, request.URL,
                                         parsed.url.Scheme, 0),
                        hostname, customUrl)

\* redirectToCustomRoute(res, req, hostname, customUrl), hostname being the
\* matched route key: "error", "panic" or "redirect" with the URL.
redirectToCustomRoute(request, hostname, customUrl) ==
    rewriteTarget(ParseURL(customUrl), request, hostname, customUrl)

\* tryRedirectRoutePath, lines 288-298: the redirect, or the 500 page when
\* redirectToCustomRoute returns an error.
routeResponse(hit, hostnamePath, out) ==
    CASE out.outcome = "redirect" ->
            Redirect(hit, out.url, StatusTemporaryRedirect)
      [] out.outcome = "panic" -> Panic(hit)
      [] OTHER ->
            Respond(hit, StatusInternalServerError,
                    <<[kind |-> "route-error", key |-> hostnamePath]>>)

\* tryRedirectRoutePath(res, req, hostnamePath): the response when
\* hostnamePath is a key of the route table; matched tells whether it was.
tryRedirectRoutePath(r, request, hostnamePath) ==
    IF hostnamePath \in DOMAIN customRoutes
    THEN routeResponse(
            [r EXCEPT !.tried = Append(@, hostnamePath), !.matched = TRUE,
                      !.matchedKey = hostnamePath],
            hostnamePath,
            redirectToCustomRoute(request, hostnamePath,
                                  customRoutes[hostnamePath]))
    ELSE [r EXCEPT !.tried = Append(@, hostnamePath)]

\* tryCustomRoutesForHostname, lines 279-283: the bare hostname.
tryHostname(r, request, hostname) ==
    IF r.matched THEN r ELSE tryRedirectRoutePath(r, request, hostname)

\* tryCustomRoutesForHostname, lines 269-277: hostname/first-segment, for a
\* path that splits into more than two fields.
trySegment(r, request, hostname) ==
    IF r.matched THEN r
    ELSE IF Len(Split(request.URL.Path, "/")) > 2
    THEN tryHostname(
            tryRedirectRoutePath(
                r, request,
                hostname \o "/" \o Split(request.URL.Path, "/")[2]),
            request, hostname)
    ELSE tryHostname(r, request, hostname)

\* tryCustomRoutesForHostname(res, req, hostname): the keys hostname+path,
\* hostname/first-segment and hostname, in this order, up to the first that
\* is in the table.
tryCustomRoutesForHostname(r, request, hostname) ==
    trySegment(tryRedirectRoutePath(r, request,
                                    hostname \o request.URL.Path),
               request, hostname)

(***************************************************************************)
(* The service directory and the candidates.                               *)
(***************************************************************************)

\* addHostnameSuffix(hostname)
addHostnameSuffix(hostname) ==
    IF Len(hostnameSuffix) = 0 THEN hostname
    ELSE hostname \o "." \o TrimPrefix(hostnameSuffix, ".")

\* (*RedirectOption).guessScheme(): the first tag that is "http" or "https"
\* in any case, "http" when there is none.
RECURSIVE guessScheme(_)
guessScheme(tags) ==
    IF Len(tags) = 0 THEN "http"
    ELSE IF ToLower(tags[1]) = "http" THEN "http"
    ELSE IF ToLower(tags[1]) = "https" THEN "https"
    ELSE guessScheme(Tail(tags))

\* (*RedirectOption).BuildURL(hostname, origUrl)
BuildURL(option, hostname, origUrl) ==
    buildUrlWithPort(hostname, origUrl, guessScheme(option.Tags), option.Port)

\* The less function handed to sort.Slice in queryConsulForHostname.
optionLess(a, b) ==
    StringLess(a.Hostname, b.Hostname) /\ a.Port < b.Port

\* The inner loop of the insertion sort: options[j] moves down while it is
\* less than the element before it.
RECURSIVE sinkOption(_, _)
sinkOption(options, j) ==
    IF j > 1 /\ optionLess(options[j], options[j - 1])
    THEN sinkOption([options EXCEPT ![j] = options[j - 1],
                                    ![j - 1] = options[j]], j - 1)
    ELSE options

\* sort.Slice(options, less) on a slice of fewer than 12 elements: an
\* insertion sort, i being the next element to insert.
RECURSIVE sortSlice(_, _)
sortSlice(options, i) ==
    IF i > Len(options) THEN options
    ELSE sortSlice(sinkOption(options, i), i + 1)

\* The RedirectOption made of one catalog entry; the port is cut to uint16.
optionOf(svc) ==
    [Hostname |-> svc.Node, Tags |-> svc.ServiceTags,
     Port |-> svc.ServicePort % 65536]

\* queryConsulForHostname, lines 384-409, address being the parsed
\* hostname and answer what the catalog returns when it is asked.
queryAddress(address, answer) ==
    IF address[1] = "" /\ address[2] = ""
    THEN [made |-> FALSE, svc |-> "", type |-> "", err |-> FALSE,
          options |-> <<>>]
    ELSE IF answer.err
    THEN [made |-> TRUE, svc |-> address[1], type |-> address[2],
          err |-> TRUE, options |-> <<>>]
    ELSE [made |-> TRUE, svc |-> address[1], type |-> address[2],
          err |-> FALSE,
          options |-> sortSlice([i \in 1..Len(answer.services) |->
                                    optionOf(answer.services[i])], 2)]

\* queryConsulForHostname(ctx, hostname): [made, svc, type, err, options].
queryConsulForHostname(hostname, answer) ==
    queryAddress(parseConsulAddress(hostname), answer)

(***************************************************************************)
(* The pages.                                                              *)
(***************************************************************************)

\* (*Server).printHostnameTips(res)
printHostnameTips == <<[kind |-> "hostname-tips"]>>

\* (*Server).printQuickLinks(res, hostname)
printQuickLinks(hostname) ==
    <<[kind |-> "quick-links",
       nomad |-> "http://"
                 \o (IF Len(nomadUIHostname) > 0 THEN nomadUIHostname
                     ELSE hostname)
                 \o ":" \o Itoa(NomadUIPort) \o "/ui/",
       consul |-> "http://"
                  \o (IF Len(consulUIHostname) > 0 THEN consulUIHostname
                      ELSE hostname)
                  \o ":" \o Itoa(ConsulUIPort) \o "/ui/"]>>

\* listItem listing every hostname once: a candidate whose node is listed
\* further down gets no item of its own.
listItemOncePerHost(option, fullHostname, u, rest) ==
    IF u.err THEN [items |-> <<>>, err |-> TRUE]
    ELSE IF \E j \in 1..Len(rest.items) :
                rest.items[j].hostname = fullHostname
    THEN rest
    ELSE [items |-> <<[kind |-> "item", href |-> URLString(u.url),
                       hostname |-> fullHostname, port |-> option.Port,
                       tags |-> Join(option.Tags, ", ")]>>
                        \o rest.items,
          err |-> rest.err]

\* ServeHTTP, lines 208-224: the list item of one candidate, u being its
\* URL; the loop and the handler end at a candidate whose URL cannot be
\* built.  [items, err].
listItem(option, fullHostname, u, rest) ==
    IF u.err THEN [items |-> <<>>, err |-> TRUE]
    ELSE [items |-> <<[kind |-> "item", href |-> URLString(u.url),
                       hostname |-> fullHostname, port |-> option.Port,
                       tags |-> Join(option.Tags, ", ")]>>
                        \o rest.items,
          err |-> rest.err]

\* ServeHTTP, lines 206-225: the loop over the candidates.
RECURSIVE listItems(_, _)
listItems(options, origUrl) ==
    IF Len(options) = 0 THEN [items |-> <<>>, err |-> FALSE]
    ELSE listItem(options[1],
                  addHostnameSuffix(options[1].Hostname),
                  BuildURL(options[1],
                           addHostnameSuffix(options[1].Hostname), origUrl),
                  listItems(Tail(options), origUrl))

(***************************************************************************)
(* The handler.                                                            *)
(***************************************************************************)

\* ServeHTTP, lines 116-133.  redirUrl.Path is read before err is looked at:
\* a URL that cannot be built is a nil dereference.
nomadRedirect(r, built, hostname) ==
    IF built.err THEN Panic(r)
    ELSE IF built.url.Path = "" \/ built.url.Path = "/"
    THEN Redirect(r,
                  URLString([built.url EXCEPT
                                !.Path = "/ui/clients",
                                !.RawQuery = "search=" \o hostname]),
                  StatusTemporaryRedirect)
    ELSE Redirect(r, URLString(built.url), StatusTemporaryRedirect)

\* ServeHTTP, lines 113-134: the redirect to the Nomad UI.
redirectNomadUI(r, request, hostname) ==
    nomadRedirect([r EXCEPT !.nomadUI = TRUE],
                  buildUrlWithPort(hostname, request.URL, "http", NomadUIPort),
                  hostname)

\* ServeHTTP, lines 163-180: the redirect to the only candidate, u being
\* its URL.
singleRedirect(r, u, hostname) ==
    IF u.err
    THEN Respond(r, StatusInternalServerError,
                 <<[kind |-> "url-error", hostname |-> hostname]>>)
    ELSE Redirect(r, URLString(u.url), StatusTemporaryRedirect)

\* ServeHTTP, lines 200-228: the listing.  There is no WriteHeader: the
\* first Write sends 200.
listing(r, list, svcName, svcType, hostname) ==
    Respond(r, StatusOK,
            <<[kind |-> "list-head", service |-> svcName, type |-> svcType]>>
                \o list.items
                \o (IF list.err THEN <<>>
                    ELSE <<[kind |-> "list-end"]>>
                            \o printQuickLinks(hostname)))

\* ServeHTTP, lines 150-228: the page or redirect made of the directory's
\* answer q.
renderResult(r, request, hostname, address, q) ==
    IF q.err
    THEN Respond(r, StatusInternalServerError,
                 <<[kind |-> "query-error", hostname |-> hostname]>>)
    ELSE IF Len(q.options) = 1
    THEN singleRedirect(r, BuildURL(q.options[1], hostname, request.URL),
                        hostname)
    ELSE IF Len(q.options) = 0
    THEN Respond(r, StatusNotFound,
                 <<[kind |-> "no-results", service |-> address[1],
                    type |-> address[2]]>>
                    \o printHostnameTips \o printQuickLinks(hostname))
    ELSE listing(r, listItems(q.options, request.URL), address[1],
                 address[2], hostname)

\* The handler's record with the query and its answer noted.
noteQuery(r, q, answer) ==
    [r EXCEPT !.queried = q.made, !.querySvc = q.svc, !.queryType = q.type,
              !.queryErr = q.err,
              !.services = IF q.made /\ ~q.err THEN answer.services ELSE <<>>,
              !.options = q.options]

\* ServeHTTP, lines 150-161.
queryAndRender(r, request, hostname, address, q, answer) ==
    renderResult(noteQuery(r, q, answer), request, hostname, address, q)

\* ServeHTTP, lines 136-148, address being the parser's answer: an empty
\* service name gives the help page.  There is no WriteHeader: the first
\* Write sends 200.
resolveAddress(r, request, hostname, address, answer) ==
    IF address[1] = ""
    THEN Respond(r, StatusOK,
                 <<[kind |-> "parse-error", hostname |-> hostname]>>
                    \o printHostnameTips \o printQuickLinks(hostname))
    ELSE queryAndRender(r, request, hostname, address,
                        queryConsulForHostname(hostname, answer), answer)

\* The handler's record with the parser's answer noted.
noteAddress(r, address) ==
    [r EXCEPT !.parsed = TRUE, !.svcName = address[1],
              !.svcType = address[2]]

\* ServeHTTP, lines 136-229: the address parser, the directory query and the
\* page or redirect made of its answer.
resolveService(r, request, hostname, answer) ==
    resolveAddress(noteAddress(r, parseConsulAddress(hostname)), request,
                   hostname, parseConsulAddress(hostname), answer)

\* ServeHTTP, lines 104-229, routed being the outcome of the lookup of the
\* raw hostname in the route table.
afterRoutes(routed, request, hostname, answer) ==
    IF routed.matched THEN routed
    ELSE IF /\ redirectToNomadUI
            /\ (HasSuffix(hostname, hostnameSuffix)
                    \/ hostname = nomadUIHostname)
    THEN redirectNomadUI(routed, request, hostname)
    ELSE resolveService(routed, request, hostname, answer)

\* ServeHTTP, lines 104-111: a hostname that ends with "." and the suffix
\* is looked up again without them.
trySuffix(raw, request, hostname) ==
    IF ~raw.matched /\ HasSuffix(hostname, "." \o hostnameSuffix)
    THEN tryCustomRoutesForHostname(
            raw, request, TrimSuffix(hostname, "." \o hostnameSuffix))
    ELSE raw

\* ServeHTTP, lines 102-229.
serveHostname(request, hostname, answer) ==
    afterRoutes(
        trySuffix(tryCustomRoutesForHostname(NoResponse, request, hostname),
                  request, hostname),
        request, hostname, answer)

\* (*Server).ServeHTTP(res, req), answer being what the catalog returns if
\* the handler queries it.
handle(request, answer) ==
    IF HasPrefix(TrimPrefix(request.URL.Path, "/"), "health")
    THEN Respond(NoResponse, StatusOK, <<[kind |-> "ok"]>>)
    ELSE IF HasPrefix(TrimPrefix(request.URL.Path, "/"), "metrics")
    THEN Respond(NoResponse, StatusOK, <<>>)
    ELSE serveHostname(request, getHostname(request), answer)

(***************************************************************************)
(* The configurations, requests and catalog answers of the model.          *)
(***************************************************************************)

\* The most services one catalog answer holds.
MaxServices == 2

\* No -customRoutes flag: parseCustomRoutes returns a nil map.
NoRoutes == [k \in {} |-> ""]

\* The route table of the integration test, with a route whose target is no
\* URL and a route with a path in its key and none in its target.
TestRoutes ==
    ("h" :> "http://home:1234")
    @@ ("h/grafana" :> "http://grafana:2345/graphs/index")
    @@ ("h/grafana/overview" :> "http://grafana:2345/graphs/12345")
    @@ ("h/graph" :> "http://grafana:2345/graph?id=$arg$&detail=1")
    @@ ("h/topgraph" :> "http://grafana:2345/graph?id=1234&detail=1")
    @@ ("h/open" :> "http://open:1234/open/$arg$")
    @@ ("h/play" :> "http://play:1234/play?v=$arg$")
    @@ ("h/plain" :> "http://plain:80")
    @@ ("bad" :> ":bad")

RouteTables == {NoRoutes, TestRoutes}
Suffixes == {"", "local"}
NomadUIHostnames == {"", "nomad"}
ConsulUIHostnames == {""}

\* Request paths as the server's mux hands them to the handler: they start
\* with '/' and hold no empty and no dot segment before the last.
ArgKeys == {"graph", "open", "play"}
Remainders == {"", "/", "/1234", "/abc/def"}
RoutePaths ==
    {"/", "/foo", "/grafana", "/grafana/foo", "/grafana/overview",
     "/topgraph", "/plain/foo", "/healthz", "/metrics"}
        \cup {"/" \o k \o rem : k \in ArgKeys, rem \in Remainders}
Queries == {"", "range=4h"}
RouteHosts == {"h", "h.local", "h:8686", "h.", "bad", "blah.local", "nomad"}

\* Hostnames for the address parser.
Names == {"foobar", "http", "a"}
Datacenters == {"consul", "site.consul"}
PlainHosts == {s \o ".service." \o d : s \in Names, d \in Datacenters}
UnderscoreHosts ==
    {"_" \o s \o "._" \o p \o ".service." \o d :
        s \in Names, p \in Names, d \in Datacenters}
DottedHosts ==
    {p \o "." \o s \o ".service." \o d :
        s \in Names, p \in Names, d \in Datacenters}
OtherHosts ==
    {"", "junk", "10.0.0.1", "a.b.c", "foobar.service", ".service.consul",
     "a.b.c.service.consul", "_.http.service.consul"}
ServiceHosts ==
    PlainHosts \cup UnderscoreHosts \cup DottedHosts \cup OtherHosts
ServiceTargets == {<<"/", "">>, <<"/foo", "key=val">>}

Requests ==
    {[Host |-> h, URL |-> URLOf("", "", p, q)] :
        h \in RouteHosts, p \in RoutePaths, q \in Queries}
    \cup {[Host |-> h, URL |-> URLOf("", "", t[1], t[2])] :
            h \in ServiceHosts, t \in ServiceTargets}

\* The catalog entries an answer is made of: two on one node, one of them
\* registered without a port, and one on another node.
CatalogServices ==
    {[Node |-> "n1", ServiceTags |-> <<>>, ServicePort |-> 0],
     [Node |-> "n1", ServiceTags |-> <<"HTTPS">>, ServicePort |-> 443],
     [Node |-> "n2", ServiceTags |-> <<"rpc", "http">>, ServicePort |-> 80]}

\* What Catalog().Service returns: an error, or up to MaxServices entries
\* in any order.
CatalogAnswers ==
    {[err |-> TRUE, services |-> <<>>]}
    \cup {[err |-> FALSE, services |-> s] :
            s \in UNION {[1..n -> CatalogServices] : n \in 0..MaxServices}}

NoRequest == [Host |-> "", URL |-> URLOf("", "", "/", "")]
NotServed == [served |-> FALSE, out |-> NoResponse]

(***************************************************************************)
(* The state machine.                                                      *)
(***************************************************************************)

\* NewServer: the flags are parsed and the route table is loaded; no request
\* has arrived.
Init ==
    /\ customRoutes \in RouteTables
    /\ hostnameSuffix \in Suffixes
    /\ redirectToNomadUI \in BOOLEAN
    /\ nomadUIHostname \in NomadUIHostnames
    /\ consulUIHostname \in ConsulUIHostnames
    /\ req = NoRequest
    /\ pending = FALSE
    /\ res = NotServed

\* The server hands a request to the handler (http.Handle("/", s)).
Receive ==
    /\ ~pending
    /\ ~res.served
    /\ req' \in Requests
    /\ pending' = TRUE
    /\ res' = NotServed
    /\ UNCHANGED flags

\* The handler serves the request, from its first line to its return.
ServeHTTP ==
    /\ pending
    /\ \E answer \in CatalogAnswers :
            res' = [served |-> TRUE, out |-> handle(req, answer)]
    /\ pending' = FALSE
    /\ UNCHANGED <<flags, req>>

\* The handler has returned: the server finishes the response and waits for
\* the next request.  Nothing of a request outlives it.
Finish ==
    /\ ~pending
    /\ res.served
    /\ req' = NoRequest
    /\ res' = NotServed
    /\ UNCHANGED <<flags, pending>>

Next == Receive \/ ServeHTTP \/ Finish

Spec == Init /\ [][Next]_vars

(***************************************************************************)
(* The properties.  They are stated of the state in which the handler has  *)
(* returned: req is the request it served and res.out what it did.         *)
(***************************************************************************)

out == res.out
hostname == getHostname(req)

\* The handler ran the directory stage and the catalog answered.
Answered == res.served /\ out.queried /\ ~out.queryErr

\* The list items of the page.
Items == SelectSeq(out.body, LAMBDA part : part.kind = "item")

\* The places of the catalog's answer that hold the service svc, and the
\* list items made of svc.
PlacesOf(svc) == {i \in 1..Len(out.services) : out.services[i] = svc}
ItemsOf(svc) ==
    {j \in 1..Len(Items) :
        /\ HasPrefix(Items[j].hostname, svc.Node)
        /\ Items[j].port = svc.ServicePort
        /\ Items[j].tags = Join(svc.ServiceTags, ", ")}

\* C1: when the handler reaches the directory and the query succeeds, the
\* number of candidates decides the response: none gives 404, one gives a
\* 307 redirect, two or more give a 200 listing with one item per candidate.
C1_StatusByCandidateCount ==
    Answered =>
        /\ out.written = 1
        /\ Len(out.services) = 0 => out.status = 404
        /\ Len(out.services) = 1 => out.status = 307 /\ out.location # ""
        /\ Len(out.services) >= 2 =>
                /\ out.status = 200
                /\ out.location = ""
                /\ Len(Items) = Len(out.services)
                /\ \A svc \in CatalogServices :
                        Cardinality(ItemsOf(svc)) = Cardinality(PlacesOf(svc))

\* A listing of two candidates on the same node.
C1_Witness ==
    /\ Answered
    /\ Len(out.services) = 2
    /\ out.services[1].Node = out.services[2].Node
    /\ out.status = 200
    /\ Len(Items) = 2

\* C2: S.service.D parses to service S with no port type and
\* _S._P.service.D to service S with port type P, for every datacenter
\* part D.
C2_ServiceFirstWithUnderscores ==
    (res.served /\ out.parsed) =>
        \A s \in Names, p \in Names, d \in Datacenters :
            /\ hostname = s \o ".service." \o d =>
                    out.svcName = s /\ out.svcType = ""
            /\ hostname = "_" \o s \o "._" \o p \o ".service." \o d =>
                    out.svcName = s /\ out.svcType = p

\* The parser has answered for _foobar._http.service.site.consul.
C2_Witness ==
    /\ res.served
    /\ out.parsed
    /\ hostname = "_foobar._http.service.site.consul"
    /\ out.svcName = "foobar"
    /\ out.svcType = "http"

\* C3: P.S.service.D parses to service S with port type P, and the
\* directory is asked for service S with port type P.
C3_TypeFirstWithoutUnderscores ==
    (res.served /\ out.parsed) =>
        \A s \in Names, p \in Names, d \in Datacenters :
            hostname = p \o "." \o s \o ".service." \o d =>
                /\ out.svcName = s
                /\ out.svcType = p
                /\ out.queried => out.querySvc = s /\ out.queryType = p

\* C4: a hostname without ".service." has no service name for the parser,
\* and the directory is never asked about it.
C4_NoServiceMarkerUnparseable ==
    (res.served /\ ~Contains(hostname, ".service.")) =>
        /\ out.parsed => out.svcName = ""
        /\ ~out.queried

\* The help page: the format hints and the quick links.
HelpPage ==
    /\ \E i \in 1..Len(out.body) : out.body[i].kind = "hostname-tips"
    /\ \E i \in 1..Len(out.body) : out.body[i].kind = "quick-links"

\* C5: when no route matched, the Nomad UI redirect was not taken and the
\* parser finds no service name, the response is 404 with the help page.
C5_UnparseableIs404 ==
    (res.served /\ out.parsed /\ out.svcName = "") =>
        /\ out.written = 1
        /\ out.status = 404
        /\ HelpPage

\* C6: the handler never panics; it returns with a response written.
C6_NoPanic ==
    res.served => ~out.panicked /\ out.written = 1

\* The route that matched: its key, the path part of the key ("/K" for a
\* key "h/K", nothing for a bare hostname), its target, and the request path
\* beyond the key's path part.
Key == out.matchedKey
KeyPath == IF Contains(Key, "/") THEN From(Key, Index(Key, "/") - 1) ELSE ""
Target == customRoutes[Key]
Template == ParseURL(Target).url
PathBeyondKey == TrimPrefix(req.URL.Path, KeyPath)
ArgValue == TrimPrefix(PathBeyondKey, "/")
Location == ParseURL(out.location).url

\* C7: a route "h/K" with $arg$ in its target answers a request for /K and
\* a remainder (possibly empty) with a 307 redirect to the target's scheme
\* and host, whose path and query are the target's with the remainder, less
\* its leading separator, for every $arg$.
C7_ArgSubstitution ==
    (res.served /\ out.matched /\ Contains(Key, "/")
        /\ Contains(Target, "$arg$")) =>
        /\ out.status = 307
        /\ out.location =
              URLString(URLOf(Template.Scheme, Template.Host,
                              ReplaceAll(Template.Path, "$arg$", ArgValue),
                              ReplaceAll(Template.RawQuery, "$arg$",
                                         ArgValue)))

\* C8: when the target of the matched route has a query, the redirect's
\* query is the target's (with the remainder for $arg$), followed by '&' and
\* the request's query when the request has one.
C8_QueriesMerged ==
    (res.served /\ out.matched /\ ~ParseURL(Target).err
        /\ Template.RawQuery # "") =>
        /\ out.status = 307
        /\ Location.RawQuery =
              ReplaceAll(Template.RawQuery, "$arg$", ArgValue)
                \o (IF req.URL.RawQuery # "" THEN "&" \o req.URL.RawQuery
                    ELSE "")

\* C9: a route whose target is a URL without $arg$ answers with a 307
\* redirect to the target's scheme and host; its path is the target's path,
\* when that is longer than "/", followed by the request path less the path
\* part of the key, and the request's query is kept.
C9_PathConcatenation ==
    (res.served /\ out.matched /\ ~ParseURL(Target).err
        /\ ~Contains(Target, "$arg$")) =>
        /\ out.written = 1
        /\ out.status = 307
        /\ Location.Scheme = Template.Scheme
        /\ Location.Host = Template.Host
        /\ Location.Path =
              (IF Len(Template.Path) > 1 THEN Template.Path ELSE "")
                \o PathBeyondKey
        /\ HasSuffix(Location.RawQuery, req.URL.RawQuery)
        /\ (req.URL.RawQuery # "" => Location.RawQuery # "")

\* /grafana/foo under the route h/grafana, the request's query kept.
C9_Witness ==
    /\ res.served
    /\ Key = "h/grafana"
    /\ req.URL.Path = "/grafana/foo"
    /\ req.URL.RawQuery = "range=4h"
    /\ out.location = "http://grafana:2345/graphs/index/foo?range=4h"

\* The keys the lookup goes through for the hostname hn, in order.
RouteKeys(hn) ==
    <<hn \o req.URL.Path>>
    \o (IF Len(Split(req.URL.Path, "/")) > 2
        THEN <<hn \o "/" \o Split(req.URL.Path, "/")[2]>> ELSE <<>>)
    \o <<hn>>

\* The keys for the raw hostname and then, for a hostname that ends with
\* '.' and the suffix, for the hostname without them.
LookupOrder ==
    RouteKeys(hostname)
    \o (IF HasSuffix(hostname, "." \o hostnameSuffix)
        THEN RouteKeys(TrimSuffix(hostname, "." \o hostnameSuffix))
        ELSE <<>>)

\* The place of the first key of LookupOrder that is in the table, 0 for
\* none.
FirstInTable ==
    First({i \in 1..Len(LookupOrder) : LookupOrder[i] \in DOMAIN customRoutes})

\* The request is neither a health check nor a metrics request.
Routed ==
    /\ res.served
    /\ ~HasPrefix(TrimPrefix(req.URL.Path, "/"), "health")
    /\ ~HasPrefix(TrimPrefix(req.URL.Path, "/"), "metrics")

\* C10: the route keys are looked up in the fixed order, up to the first
\* that is in the table; that key decides the response, exactly one response
\* is written, and neither the Nomad UI redirect nor the directory query
\* follows a match.
C10_FirstKeyDecides ==
    Routed =>
        /\ out.tried = (IF FirstInTable = 0 THEN LookupOrder
                        ELSE SubSeq(LookupOrder, 1, FirstInTable))
        /\ out.matched = (FirstInTable # 0)
        /\ FirstInTable # 0 =>
                /\ Key = LookupOrder[FirstInTable]
                /\ out.written = 1
                /\ ~out.nomadUI
                /\ ~out.parsed
                /\ ~out.queried

\* The candidates the handler renders: what queryConsulForHostname returned.
Candidates == out.options

\* The host part of a URL of the response.
HostOf(href) == ParseURL(href).url.Host

\* The host part of the URL of a candidate: its node with the cluster suffix,
\* ':' and its port.
CandidateHost(option) ==
    addHostnameSuffix(option.Hostname) \o ":" \o Itoa(option.Port)

\* The host part a URL has when it is built on the request's hostname.
RequestHost(option) == hostname \o ":" \o Itoa(option.Port)

\* C11: every URL made of a directory candidate, the Location of the
\* redirect to a single candidate and every link of a listing, has the
\* candidate's node hostname with the cluster suffix, ':' and the
\* candidate's port for its host part, never the request's hostname.
C11_CandidateHostInEveryURL ==
    Answered =>
        /\ Len(Candidates) = 1 =>
                /\ HostOf(out.location) = CandidateHost(Candidates[1])
                /\ HostOf(out.location) # RequestHost(Candidates[1])
        /\ Len(Candidates) >= 2 =>
                \A j \in 1..Len(Items) :
                    /\ HostOf(Items[j].href) = CandidateHost(Candidates[j])
                    /\ HostOf(Items[j].href) # RequestHost(Candidates[j])

\* The candidates made of the catalog's answer, in the catalog's order.
Returned == [i \in 1..Len(out.services) |-> optionOf(out.services[i])]

\* The places of the sequence options that hold the candidate option.
PlacesIn(options, option) == {i \in 1..Len(options) : options[i] = option}

\* options holds the elements of others, each as often as others does.
IsPermutation(options, others) ==
    /\ Len(options) = Len(others)
    /\ \A i \in 1..Len(others) :
            Cardinality(PlacesIn(options, others[i]))
                = Cardinality(PlacesIn(others, others[i]))

\* a is not after b: by hostname first and by port for one hostname.
InOrder(a, b) ==
    \/ StringLess(a.Hostname, b.Hostname)
    \/ a.Hostname = b.Hostname /\ a.Port <= b.Port

\* C12: of two or more candidates, whatever the order the catalog returns
\* them in, queryConsulForHostname returns a permutation that ascends by
\* hostname and, for one hostname, by port; the listing's items are in that
\* order.
C12_SortedByHostnameThenPort ==
    (Answered /\ Len(out.services) >= 2) =>
        /\ IsPermutation(Candidates, Returned)
        /\ \A i \in 1..(Len(Candidates) - 1) :
                InOrder(Candidates[i], Candidates[i + 1])
        /\ Len(Items) = Len(Candidates)
        /\ \A j \in 1..Len(Items) :
                /\ Items[j].hostname = addHostnameSuffix(Candidates[j].Hostname)
                /\ Items[j].port = Candidates[j].Port

====
